---- MODULE Spec2Model ----
(***************************************************************************)
(* A model of PYTHorrent: the tracker's announce scheduling                *)
(* (peer_stores.py), the peer wire engine (peer.py), the piece objects     *)
(* (pieces.py) and the driver loop Torrent.run (torrent.py).               *)
(*                                                                         *)
(* The program is single-threaded.  One action of the model is one step of *)
(* the driver: a read of Torrent.peers, Peer.run on one peer, one inbound  *)
(* message handled, the piece selection, and so on.  Everything the        *)
(* outside world decides (the clock, the tracker's response, what a peer   *)
(* sends, whether a socket operation fails) is drawn with \E from a small  *)
(* set.                                                                    *)
(*                                                                         *)
(* Several specifications share the variables and the definitions:         *)
(*   SpecTracker  reads of Tracker.peers on a tracker object, as the tests *)
(*                of test_tracker.py use it, under every response;         *)
(*   SpecWire     one Peer object: Peer.run and Peer.handle_message under  *)
(*                every message of the alphabet;                           *)
(*   Spec         the driver loop Torrent.run with a tracker and a swarm;  *)
(*   SpecSwarm    the driver with one refusing and one serving peer, under *)
(*                weak fairness;                                           *)
(*   SpecServe    requests and pieces handled by a peer that holds the     *)
(*                local pieces;                                            *)
(*   SpecUDP      the connect step of UDPTracker;                          *)
(*   SpecFiles    Torrent.create_directory and Torrent.split_out;          *)
(*   SpecStore    the piece files across restarts of the program;          *)
(*   SpecBlocks   PieceRemote.insert_block on one buffer;                  *)
(*   SpecIndex    the piece map and the wire index of a piece when piece   *)
(*                hashes repeat;                                           *)
(*   SpecTotals   Torrent.remaining for every total size and piece length. *)
(***************************************************************************)
EXTENDS Integers, Sequences, FiniteSets, TLC

(***************************************************************************)
(* Bounds of the model.                                                    *)
(***************************************************************************)
\* Clock values are 0..MaxTick and TRACKER_INTERVAL..TRACKER_INTERVAL+MaxTick.
MaxTick == 1
\* Pieces of the torrent are 0..NumPieces-1.
NumPieces == 2
\* Peer.uploaded is not allowed to grow past this value.
MaxUploaded == 2
\* The tracker of a driver run knows the first MaxSwarm endpoints.
MaxSwarm == 1
\* A PieceRemote buffer that blocks are inserted into holds at most MaxBuffer
\* bytes, and a block starts at one of the offsets 0..MaxBegin.
MaxBuffer == 4
MaxBegin == 3
\* The name of a torrent has at most MaxName tokens.
MaxName == 3
\* A metainfo whose piece hashes may repeat has at most MaxHashes pieces.
MaxHashes == 3
\* Where the sizes of a torrent are drawn, its files hold 1..MaxTotal bytes
\* and its pieces 1..MaxPieceLength.
MaxTotal == 8
MaxPieceLength == 4

(***************************************************************************)
(* Program constants.                                                      *)
(***************************************************************************)
TRACKER_INTERVAL == 1800
MAX_PEERS == 20
\* Peer.ESTATUS
BAD == -3
NOT_STARTED == -2
CLOSED == -1
CHOKE == 0
OK == 1
\* Lengths are counted in units of 8192 bytes: BLOCK_SIZE = 2^14 bytes.
BLOCK_SIZE == 2
\* Tracker.last_run = None
NoTime == -1

Min(a, b) == IF a < b THEN a ELSE b

(***************************************************************************)
(* The sampled inputs.                                                     *)
(***************************************************************************)
\* The (ip, port) endpoints a tracker may report, in the order the peer
\* dictionaries list them.
HostPorts == <<"10.0.0.1:6881", "10.0.0.2:6881">>
Endpoints == {HostPorts[k] : k \in 1..Len(HostPorts)}
Swarm == {HostPorts[k] : k \in 1..Min(MaxSwarm, Len(HostPorts))}
\* One Peer object per id.
PeerIds == 1..Len(HostPorts)
NoPeer == 0
Pieces == 0..(NumPieces - 1)
NoPiece == -1
TimePoints == (0..MaxTick) \cup (TRACKER_INTERVAL..(TRACKER_INTERVAL + MaxTick))
\* Torrent.info_hash, and a hash another torrent has.
info_hash == "ih_torrent"
InfoHashes == {info_hash, "ih_other"}
\* Torrent.piece_length: pieces of one block.
piece_length == BLOCK_SIZE
\* The bytes of piece i as the metainfo's author hashed them.
Content(i) == [k \in 1..piece_length |-> i + 1]
\* A block that belongs to no piece.
Corrupt == [k \in 1..BLOCK_SIZE |-> 0]

VARIABLES
    now,              \* the last value read from the clock (datetime.utcnow)
    last_run,         \* Tracker.last_run, NoTime for None
    tracker_interval, \* Tracker.tracker_interval
    tracker_peers,    \* Tracker._peers: endpoint -> Peer object, NoPeer if absent
    torrent_peers,    \* Torrent._peers: endpoint -> Peer object, NoPeer if absent
    peer,             \* the Peer objects, by id
    pieces,           \* Torrent._pieces: the data of each PieceLocal
    disk,             \* the files of the _pieces directory: name -> content
    pc,               \* where Torrent.run is
    todo,             \* the rest of the list a for loop of the driver walks
    piece,            \* the piece the iteration selected
    cur,              \* the peer the driver is working on
    peer_piece,       \* Peer.acquire's local peer_piece
    received,         \* Peer.acquire's local received
    event,            \* history: what the last step did
    last_ok,          \* history: time and interval of the last successful announce
    ever_bad          \* history: the endpoints whose Peer has been in status BAD

vars == <<now, last_run, tracker_interval, tracker_peers, torrent_peers, peer,
          pieces, disk, pc, todo, piece, cur, peer_piece, received, event, last_ok,
          ever_bad>>

(***************************************************************************)
(* pieces.py                                                               *)
(***************************************************************************)
\* Python's s[a:b] and s[a:] for a, b >= 0.
PySlice(s, a, b) == SubSeq(s, a + 1, Min(b, Len(s)))
PySliceFrom(s, a) == SubSeq(s, a + 1, Len(s))

\* hashlib.sha1(data).digest(): injective on the data of the model.
digest(data) == <<"sha1", data>>

\* Torrent.piece_hashes
piece_hashes == [i \in Pieces |-> digest(Content(i))]

\* Piece.valid
valid(sha, data) == sha = digest(data)

file_name_before_merge(data) == digest(<<>>)

\* Piece.file_name: the hex digest of the data held.
file_name(data) == digest(data)

\* Piece.piece_path: path.join(save_dir, self.file_name).  A path is the
\* sequence of the names below the _pieces directory.
piece_path(save_dir, data) == Append(save_dir, file_name(data))

\* os.path.isfile and open(path, "rb").read() on a directory d of files: the
\* directory holds plain files only.
isfile(d, path) == Len(path) = 1 /\ \E f \in d : f.name = path[1]
read(d, path) == (CHOOSE f \in d : f.name = path[1]).data

\* with open(piece_path, "wb") as f: piece.save(f)
save(d, path, data) ==
    {f \in d : f.name # path[1]} \cup {[name |-> path[1], data |-> data]}

\* PieceLocal.load(piece_dir) on a piece holding data
load(d, data, piece_dir) ==
    LET path == piece_path(piece_dir, data)
    IN  IF isfile(d, path) THEN [exc |-> "none", data |-> read(d, path)]
        ELSE [exc |-> "IOError", data |-> data]

\* PieceRemote.insert_block
insert_block(data, index, block) ==
    LET right_index == index + Len(block)
    IN  PySlice(data, 0, index) \o block \o PySliceFrom(data, right_index)

\* PieceRemote.__init__
PieceRemote(have) == [have |-> have, data |-> <<>>]

(***************************************************************************)
(* peer_stores.py: Tracker and HTTPTracker                                 *)
(***************************************************************************)
\* Tracker.next_run: last_run + timedelta(seconds=tracker_interval)
next_run(lr, iv) == lr + iv

ok_to_announce_at_next_run(lr, iv, t) ==
    IF lr = NoTime THEN TRUE ELSE t >= next_run(lr, iv)

\* Tracker.ok_to_announce, read when the clock says t
ok_to_announce(lr, iv, t) ==
    IF lr = NoTime THEN TRUE ELSE t > next_run(lr, iv)

\* What requests.get may come back with: a ConnectionError, or a response with
\* a status code and a bencoded body.
StatusCodes == {199, 200, 299, 300}
Responses ==
    [conn_error : {TRUE}, status_code : {200}, has_interval : {FALSE},
     interval : {0}, failure_reason : {FALSE}, peers : {{}}]
    \cup
    [conn_error : {FALSE}, status_code : StatusCodes, has_interval : {FALSE},
     interval : {0}, failure_reason : {FALSE}, peers : {{}}]
    \cup
    [conn_error : {FALSE}, status_code : {200}, has_interval : BOOLEAN,
     interval : {1}, failure_reason : BOOLEAN, peers : SUBSET Endpoints]

response_interval_default(r) == TRACKER_INTERVAL

\* decoded_response.get('interval', self.TRACKER_INTERVAL)
response_interval(r) == IF r.has_interval THEN r.interval ELSE TRACKER_INTERVAL

\* HTTPTracker.announce on response r, the clock saying t when last_run is
\* set: the exception raised, the tracker's fields afterwards and the
\* endpoints of the dictionary returned.
announce(r, t) ==
    IF r.conn_error
    THEN [exc |-> "none", last_run |-> last_run,
          tracker_interval |-> tracker_interval, hostports |-> {}]
    ELSE IF r.status_code < 200 \/ r.status_code >= 300
    THEN [exc |-> "BitTorrentException", last_run |-> last_run,
          tracker_interval |-> tracker_interval, hostports |-> {}]
    ELSE IF r.failure_reason
    THEN [exc |-> "BitTorrentException", last_run |-> t,
          tracker_interval |-> response_interval(r), hostports |-> {}]
    ELSE [exc |-> "none", last_run |-> t,
          tracker_interval |-> response_interval(r), hostports |-> r.peers]

(***************************************************************************)
(* peer.py: the Peer objects                                               *)
(***************************************************************************)
\* An id no table refers to.
FreePeer ==
    [hostport |-> "none", status |-> NOT_STARTED, conn |-> "none",
     handshaken |-> FALSE, info_hash |-> "None",
     pieces |-> [i \in Pieces |-> PieceRemote(FALSE)], uploaded |-> 0]

\* Peer.__init__, with Peer.pieces as built on its first read.  conn is the
\* socket: "none" before setup, then "open" or "closed".  handshaken is
\* history: the remote handshake was received whole on this connection.
Peer(hostport) == [FreePeer EXCEPT !.hostport = hostport]

\* Peer.close
close(p) == [p EXCEPT !.status = CLOSED, !.conn = "closed"]

\* Peer.bad
bad(p) == [p EXCEPT !.conn = "closed", !.status = BAD]

\* The ids the tables hold.
Live(tp, op) == {tp[e] : e \in Endpoints} \cup {op[e] : e \in Endpoints}

\* The k smallest ids of S, in increasing order.
RECURSIVE Smallest(_, _)
Smallest(S, k) ==
    IF k = 0 \/ S = {} THEN <<>>
    ELSE LET m == CHOOSE x \in S : \A y \in S : x <= y
         IN  <<m>> \o Smallest(S \ {m}, k - 1)

\* The endpoints of H in the order of HostPorts.
Ordered(H) == SelectSeq(HostPorts, LAMBDA e : e \in H)

Position(seq, x) == CHOOSE k \in 1..Len(seq) : seq[k] = x

\* dict(map(lambda hostport: (hostport, self.PEER(hostport, self.torrent)), peers)):
\* a new Peer object for every endpoint reported.  An id names the object an
\* endpoint's entry holds; the object that an update of both tables replaces
\* leaves its id to the new one.
NewPeers(H) ==
    LET kept == {tracker_peers[e] : e \in Endpoints \ H}
                \cup {torrent_peers[e] : e \in Endpoints \ H}
        free == Smallest(PeerIds \ kept, Cardinality(H))
    IN  [e \in H |-> free[Position(Ordered(H), e)]]

\* dict.update
Update(old, new) == [e \in Endpoints |-> IF new[e] # NoPeer THEN new[e] ELSE old[e]]

\* Objects no table refers to any more are gone.
Collect(objs, tp, op) ==
    [i \in PeerIds |-> IF i \in Live(tp, op) THEN objs[i] ELSE FreePeer]

\* dict.values(), as a list
Values(d) == LET seq == Ordered({e \in Endpoints : d[e] # NoPeer})
             IN  [k \in 1..Len(seq) |-> d[seq[k]]]

(***************************************************************************)
(* peer_stores.py: Tracker.peers                                           *)
(***************************************************************************)
\* if self.ok_to_announce: self._peers.update(self.announce()); return
\* self._peers.  asked says whether the if is taken; the result holds the
\* exception raised, the tracker's fields afterwards, the mapping returned and
\* the endpoints a Peer object was built for.
PeersRead(asked, r, t2) ==
    LET a == IF asked THEN announce(r, t2)
             ELSE [exc |-> "none", last_run |-> last_run,
                   tracker_interval |-> tracker_interval, hostports |-> {}]
        fresh == NewPeers(a.hostports)
    IN  [asked |-> asked, exc |-> a.exc, last_run |-> a.last_run,
         tracker_interval |-> a.tracker_interval, built |-> a.hostports,
         peers |-> [e \in Endpoints |->
                      IF e \in a.hostports THEN fresh[e] ELSE tracker_peers[e]]]

Tracker_peers_refresh(t, r, t2) == PeersRead(TRUE, r, t2)

\* Tracker.peers read when the clock says t; r is what the tracker answers if
\* asked and t2 the clock when the answer is in.
Tracker_peers(t, r, t2) ==
    PeersRead(ok_to_announce(last_run, tracker_interval, t), r, t2)

\* The Peer objects after a read: the new ones as Peer.__init__ leaves them.
Built(objs, res) ==
    [i \in PeerIds |->
        IF \E e \in res.built : res.peers[e] = i
        THEN Peer(CHOOSE e \in res.built : res.peers[e] = i)
        ELSE objs[i]]

(***************************************************************************)
(* peer_stores.py: UDPTracker                                              *)
(***************************************************************************)
\* The names the import statements of peer_stores.py bind:
\* `from struct import unpack` binds unpack and leaves struct unbound.
ModuleNames ==
    {"socket", "random", "urlparse", "unpack", "datetime", "timedelta",
     "splice", "BitTorrentException", "Peer", "requests", "Bencode", "logging",
     "decode_binary_peers", "decode_port", "store_from_url", "TrackerException",
     "Tracker", "HTTPTracker", "UDPTracker"}

\* UDPTracker.EACTION
NEW_CONNECTION == 0
ERROR == 3

\* What a call of the UDP tracker gives back: the exception raised, and the
\* value returned as a sequence of one element, empty for None.
Raise(exc) == [exc |-> exc, ret |-> <<>>]
Return(value) == [exc |-> "none", ret |-> value]

\* The datagrams recvfrom may give: its length, and the action, transaction
\* id and connection id packed into its first 16 bytes.
Datagrams ==
    [len : {15, 16, 20}, action : 0..3, transaction_id : {0, 254},
     connection_id : {1, 2}]

\* UDPTracker.parse_connection_response(transaction_id) on datagram buf
parse_connection_response(buf, transaction_id) ==
    IF buf.len < 16 THEN Raise("TrackerException")
    ELSE IF "struct" \notin ModuleNames THEN Raise("NameError")
    ELSE IF buf.transaction_id # transaction_id THEN Raise("TrackerException")
    ELSE IF buf.action = NEW_CONNECTION THEN Return(<<buf.connection_id>>)
    ELSE IF buf.action = ERROR THEN Raise("TrackerException")
    ELSE Return(<<>>)

\* UDPTracker.connection_request: generate_message packs with struct.pack,
\* and the parser is called by its bare name.
connection_request(buf, transaction_id) ==
    IF "struct" \notin ModuleNames THEN Raise("NameError")
    ELSE IF "parse_connection_response" \notin ModuleNames THEN Raise("NameError")
    ELSE parse_connection_response(buf, transaction_id)

(***************************************************************************)
(* peer.py: the wire engine                                                *)
(***************************************************************************)
PeerExc == "BitTorrentPeerException"

\* What a call gives back: the Peer object afterwards, the exception raised
\* ("none" when it returns), the value returned and the number of byte
\* strings that sendall took, with the piece messages among them in wire.
R(p, exc, ret) == [p |-> p, exc |-> exc, ret |-> ret, out |-> 0, wire |-> <<>>]

\* Peer.send; ok says whether sendall went through.  A socket that was closed
\* refuses every sendall.
send(p, ok) ==
    IF ok /\ p.conn = "open"
    THEN [R(p, "none", 0) EXCEPT !.out = 1]
    ELSE R(close(p), PeerExc, 0)

\* Peer.recv; f is how the read ends: "none" (every byte arrived), "error"
\* (socket.error, a timeout included) or "eof" (the stream ended early).
recv(p, f) ==
    IF f = "error" THEN R(close(p), PeerExc, 0)
    ELSE IF f = "eof" THEN R(p, PeerExc, 0)
    ELSE R(p, "none", 0)

\* How the remote end answers Peer.run.
RunOutcomes ==
    [connect : BOOLEAN, sent : BOOLEAN,
     hs : {"ok", "bad_protocol", "error", "eof"},
     stage : {"early", "late"}, ih : InfoHashes]

\* Peer.setup
setup(p, o) ==
    IF o.connect
    THEN R([p EXCEPT !.conn = "open", !.status = OK, !.handshaken = FALSE], "none", 0)
    ELSE R(close([p EXCEPT !.handshaken = FALSE]), PeerExc, 0)

recv_handshake_checks_last(p, o) ==
    IF o.hs = "bad_protocol"
    THEN R(bad([p EXCEPT !.info_hash = o.ih, !.handshaken = TRUE]), PeerExc, 0)
    ELSE IF o.hs = "ok"
    THEN R([p EXCEPT !.info_hash = o.ih, !.handshaken = TRUE], "none", 0)
    ELSE recv(IF o.stage = "late" THEN [p EXCEPT !.info_hash = o.ih] ELSE p, o.hs)

\* Peer.recv_handshake.  A read that fails "early" fails before info_hash is
\* assigned, one that fails "late" fails while peer_id is read.
recv_handshake(p, o) ==
    IF o.hs = "bad_protocol" THEN R(bad(p), PeerExc, 0)
    ELSE IF o.hs = "ok"
    THEN R([p EXCEPT !.info_hash = o.ih, !.handshaken = TRUE], "none", 0)
    ELSE recv(IF o.stage = "late" THEN [p EXCEPT !.info_hash = o.ih] ELSE p, o.hs)

\* Peer.run: setup, handshake, recv_handshake
run(p, o) ==
    LET s == setup(p, o)
        h == send(s.p, o.sent)
    IN  IF s.exc # "none" THEN s
        ELSE IF h.exc # "none" THEN h
        ELSE recv_handshake(h.p, o)

\* An inbound message.  mtype is NoType when the length prefix is 0 and when
\* the header itself could not be read; plen says whether payload bytes follow
\* the type byte; wellformed says whether the payload has the size the type's
\* unpack needs; fail and at say how and where the reading of it ends.
NoType == -1
UnknownType == 10
M0 ==
    [mtype |-> NoType, plen |-> 0, index |-> 0, begin |-> 0, size |-> 0,
     block |-> <<>>, bits |-> [i \in Pieces |-> FALSE], wellformed |-> TRUE,
     fail |-> "none", at |-> "header", sent |-> TRUE]
PayloadEnds == {<<"error", "payload">>, <<"eof", "payload">>}
WithEnd(S) == {[m EXCEPT !.fail = x[1], !.at = x[2]] : m \in S, x \in PayloadEnds}
Messages ==
    \* the header cannot be read, or says length 0
    {[M0 EXCEPT !.fail = f] : f \in {"none", "error", "eof"}}
    \* choke, unchoke, interested, not interested, port: no payload to read
    \cup {[M0 EXCEPT !.mtype = t] : t \in {0, 1, 2, 3, 9}}
    \* a payload that cannot be read to its end
    \cup WithEnd({[M0 EXCEPT !.mtype = t, !.plen = 1] : t \in {0, 1, 2, 3, 4, 5, 6, 7, 9}})
    \* have
    \cup {[M0 EXCEPT !.mtype = 4, !.plen = 1, !.index = i] : i \in 0..NumPieces}
    \cup {[M0 EXCEPT !.mtype = 4, !.plen = 1, !.wellformed = FALSE]}
    \* bitfield, and one with no bits at all
    \cup {[M0 EXCEPT !.mtype = 5, !.plen = 1, !.bits = b] : b \in [Pieces -> BOOLEAN]}
    \cup {[M0 EXCEPT !.mtype = 5, !.wellformed = FALSE]}
    \* request
    \cup {[M0 EXCEPT !.mtype = 6, !.plen = 1, !.index = i, !.size = z, !.sent = k] :
            i \in 0..NumPieces, z \in {BLOCK_SIZE, BLOCK_SIZE + 1}, k \in BOOLEAN}
    \cup {[M0 EXCEPT !.mtype = 6, !.plen = 1, !.wellformed = FALSE]}
    \* piece: the block of any piece, a block that is not the piece's, and a
    \* block for an index past the last piece
    \cup {[M0 EXCEPT !.mtype = 7, !.plen = 1, !.index = i, !.block = Content(i)] :
            i \in Pieces}
    \cup {[M0 EXCEPT !.mtype = 7, !.plen = 1, !.index = i, !.block = Corrupt] :
            i \in {0, NumPieces}}
    \cup {[M0 EXCEPT !.mtype = 7, !.plen = 1, !.wellformed = FALSE]}
    \* cancel and a type the protocol does not know: the payload is not read
    \cup {[M0 EXCEPT !.mtype = t, !.plen = 1] : t \in {8, UnknownType}}

HeaderFail(m) == IF m.at = "header" THEN m.fail ELSE "none"
PayloadFail(m) == IF m.at = "payload" /\ m.plen > 0 THEN m.fail ELSE "none"

recv_keep_alive(p, m) == R(p, "none", 0)

recv_choke_ignored(p, m) == recv(p, PayloadFail(m))

recv_choke(p, m) == recv([p EXCEPT !.status = CHOKE], PayloadFail(m))

recv_unchoke(p, m) == recv([p EXCEPT !.status = OK], PayloadFail(m))

recv_interested(p, m) == recv(p, PayloadFail(m))

recv_uninterested(p, m) == recv(p, PayloadFail(m))

recv_have(p, m) ==
    LET r == recv(p, PayloadFail(m))
    IN  IF r.exc # "none" THEN r
        ELSE IF ~m.wellformed THEN R(p, "struct.error", 0)
        ELSE IF m.index \notin Pieces THEN R(p, "IndexError", 0)
        ELSE R([p EXCEPT !.pieces[m.index].have = TRUE], "none", 0)

\* Each PieceRemote is replaced by a new one.  A payload without bits ends in
\* bits[0] raising IndexError.
recv_bitfield(p, m) ==
    LET r == recv(p, PayloadFail(m))
    IN  IF r.exc # "none" THEN r
        ELSE IF ~m.wellformed THEN R(p, "IndexError", 0)
        ELSE R([p EXCEPT !.pieces = [i \in Pieces |-> PieceRemote(m.bits[i])]],
               "none", 0)

\* Peer.send_piece with data given
send_piece(p, index, begin, data, ok) ==
    LET s == send(p, ok)
    IN  IF s.exc # "none" THEN s
        ELSE [s EXCEPT !.p = [p EXCEPT !.uploaded = p.uploaded + Len(data)],
                       !.wire = <<[index |-> index, begin |-> begin, block |-> data]>>]

recv_request_any_size(p, m) ==
    LET r == recv(p, PayloadFail(m))
    IN  IF r.exc # "none" THEN r
        ELSE IF ~m.wellformed THEN R(p, "struct.error", 0)
        ELSE IF m.index \notin Pieces THEN R(p, "IndexError", 0)
        ELSE send_piece(p, m.index, m.begin,
                        PySlice(p.pieces[m.index].data, m.begin, m.size), m.sent)

recv_request(p, m) ==
    LET r == recv(p, PayloadFail(m))
    IN  IF r.exc # "none" THEN r
        ELSE IF ~m.wellformed THEN R(p, "struct.error", 0)
        ELSE IF m.size > BLOCK_SIZE THEN R(bad(p), PeerExc, 0)
        ELSE IF m.index \notin Pieces THEN R(p, "IndexError", 0)
        ELSE send_piece(p, m.index, m.begin,
                        PySlice(p.pieces[m.index].data, m.begin, m.size), m.sent)

recv_piece(p, m) ==
    LET r == recv(p, PayloadFail(m))
    IN  IF r.exc # "none" THEN r
        ELSE IF ~m.wellformed THEN R(p, "struct.error", 0)
        ELSE IF m.index \notin Pieces THEN R(p, "IndexError", 0)
        ELSE R([p EXCEPT !.pieces[m.index].data =
                    insert_block(p.pieces[m.index].data, m.begin, m.block)],
               "none", Len(m.block))

recv_cancel(p, m) == R(p, "none", 0)

recv_port(p, m) == recv(p, PayloadFail(m))

type_convert_falsy(message_type) ==
    CASE message_type \in {NoType, 0} -> "recv_choke"
      [] message_type = 1 -> "recv_unchoke"
      [] message_type = 2 -> "recv_interested"
      [] message_type = 3 -> "recv_uninterested"
      [] message_type = 4 -> "recv_have"
      [] message_type = 5 -> "recv_bitfield"
      [] message_type = 6 -> "recv_request"
      [] message_type = 7 -> "recv_piece"
      [] message_type = 8 -> "recv_cancel"
      [] message_type = 9 -> "recv_port"
      [] OTHER -> "recv_keep_alive"

\* Peer.type_convert: the handler of a type
type_convert(message_type) ==
    CASE message_type = 0 -> "recv_choke"
      [] message_type = 1 -> "recv_unchoke"
      [] message_type = 2 -> "recv_interested"
      [] message_type = 3 -> "recv_uninterested"
      [] message_type = 4 -> "recv_have"
      [] message_type = 5 -> "recv_bitfield"
      [] message_type = 6 -> "recv_request"
      [] message_type = 7 -> "recv_piece"
      [] message_type = 8 -> "recv_cancel"
      [] message_type = 9 -> "recv_port"
      [] OTHER -> "recv_keep_alive"

\* message_type(payload_length)
Call(handler, p, m) ==
    CASE handler = "recv_choke" -> recv_choke(p, m)
      [] handler = "recv_unchoke" -> recv_unchoke(p, m)
      [] handler = "recv_interested" -> recv_interested(p, m)
      [] handler = "recv_uninterested" -> recv_uninterested(p, m)
      [] handler = "recv_have" -> recv_have(p, m)
      [] handler = "recv_bitfield" -> recv_bitfield(p, m)
      [] handler = "recv_request" -> recv_request(p, m)
      [] handler = "recv_piece" -> recv_piece(p, m)
      [] handler = "recv_cancel" -> recv_cancel(p, m)
      [] handler = "recv_port" -> recv_port(p, m)
      [] OTHER -> recv_keep_alive(p, m)

\* Peer.handle_message_type, then the call of what it returned
handle_message(p, m) ==
    LET h == recv(p, HeaderFail(m))
    IN  IF h.exc # "none" THEN h ELSE Call(type_convert(m.mtype), p, m)

\* The length prefix of message m, in the units of plen: 0 for a keep-alive,
\* else the type byte and the payload.
declared(m) == IF m.mtype = NoType THEN 0 ELSE 1 + m.plen

\* The handlers that take their payload from the stream with
\* self.recv(length); recv_keep_alive and recv_cancel are `pass`.
ReadsPayload ==
    {"recv_choke", "recv_unchoke", "recv_interested", "recv_uninterested",
     "recv_have", "recv_bitfield", "recv_request", "recv_piece", "recv_port"}

\* The bytes handle_message takes from the stream for m when every read
\* succeeds: the prefix, counted as 4, the type byte when the prefix is not 0
\* (handle_message_header), and the payload when the handler reads it.
taken(m) ==
    4 + (IF declared(m) > 0 THEN 1 ELSE 0)
      + (IF type_convert(m.mtype) \in ReadsPayload THEN declared(m) - 1 ELSE 0)

(***************************************************************************)
(* torrent.py: the save directory                                          *)
(***************************************************************************)
\* A path is a sequence of tokens: the separator, the parent segment and
\* letters.  A directory is the sequence of the segments that lead to it from
\* the root.
Sep == "/"
Parent == ".."
PIECE_DIR == "_pieces"

\* os.path.join(a, b)
join(a, b) ==
    IF b # <<>> /\ b[1] = Sep THEN b
    ELSE IF a = <<>> \/ a[Len(a)] = Sep THEN a \o b
    ELSE a \o <<Sep>> \o b

\* str.startswith
startswith(str, prefix) ==
    Len(prefix) <= Len(str) /\ SubSeq(str, 1, Len(prefix)) = prefix

\* str.split(Sep)
RECURSIVE split(_)
split(str) ==
    IF str = <<>> THEN << <<>> >>
    ELSE IF Head(str) = Sep THEN << <<>> >> \o split(Tail(str))
    ELSE LET rest == split(Tail(str))
         IN  << <<Head(str)>> \o rest[1] >> \o Tail(rest)

\* The directory one segment x leads to from directory at
step(at, x) ==
    IF x = <<>> THEN at
    ELSE IF x = <<Parent>>
    THEN (IF at = <<>> THEN at ELSE SubSeq(at, 1, Len(at) - 1))
    ELSE Append(at, x)

\* Where the segments segs lead from directory at, as the operating system
\* resolves an absolute path: every directory on the way has to exist in dirs.
RECURSIVE walk(_, _, _)
walk(segs, at, dirs) ==
    IF at \notin dirs THEN [ok |-> FALSE, at |-> at]
    ELSE IF segs = <<>> THEN [ok |-> TRUE, at |-> at]
    ELSE walk(Tail(segs), step(at, Head(segs)), dirs)

\* The same on the text of the path alone
RECURSIVE fold(_, _)
fold(segs, at) ==
    IF segs = <<>> THEN at ELSE fold(Tail(segs), step(at, Head(segs)))

\* os.path.normpath of an absolute path, as a directory
normpath(str) == fold(split(str), <<>>)

\* os.path.isdir
isdir(dirs, str) == walk(split(str), <<>>, dirs).ok

\* Segments without the empty ones at the end
RECURSIVE rstrip(_)
rstrip(segs) ==
    IF segs # <<>> /\ segs[Len(segs)] = <<>>
    THEN rstrip(SubSeq(segs, 1, Len(segs) - 1)) ELSE segs

\* os.mkdir: the directory made, or OSError
mkdir(dirs, str) ==
    LET segs == rstrip(split(str))
        last == IF segs = <<>> THEN <<Parent>> ELSE segs[Len(segs)]
        up == IF segs = <<>> THEN [ok |-> TRUE, at |-> <<>>]
              ELSE walk(SubSeq(segs, 1, Len(segs) - 1), <<>>, dirs)
        made == Append(up.at, last)
    IN  IF ~up.ok \/ last = <<Parent>> \/ made \in dirs
        THEN [exc |-> "OSError", dirs |-> dirs, made |-> <<>>]
        ELSE [exc |-> "none", dirs |-> dirs \cup {made}, made |-> <<made>>]

\* Torrent.save_directory and Torrent.piece_directory as strings
save_directory(save_path, name) == join(save_path, name)
piece_directory_of(save_path, name) ==
    join(save_directory(save_path, name), <<PIECE_DIR>>)

\* Torrent.create_directory with the directories dirs in place: the exception
\* raised and the directories made.  The message of the RuntimeError is
\* formatted from the name path, which torrent.py does not bind.
create_directory(save_path, name, dirs) ==
    LET sd == save_directory(save_path, name)
        pd == piece_directory_of(save_path, name)
        first == IF isdir(dirs, sd)
                 THEN [exc |-> "none", dirs |-> dirs, made |-> <<>>]
                 ELSE mkdir(dirs, sd)
        second == IF isdir(first.dirs, pd)
                  THEN [exc |-> "none", dirs |-> first.dirs, made |-> <<>>]
                  ELSE mkdir(first.dirs, pd)
    IN  IF ~startswith(sd, save_path) THEN [exc |-> "NameError", made |-> <<>>]
        ELSE IF first.exc # "none"
        THEN [exc |-> "BitTorrentException", made |-> <<>>]
        ELSE [exc |-> second.exc, made |-> first.made \o second.made]

(***************************************************************************)
(* torrent.py: the driver, Torrent.run                                     *)
(***************************************************************************)
DefaultResponse == CHOOSE r \in Responses : r.conn_error
NoEvent ==
    [op |-> "none", mtype |-> NoType, pre |-> NOT_STARTED, whole |-> FALSE,
     exc |-> "none", hs |-> "none", fail |-> "none", out |-> 0,
     oversize |-> FALSE, args |-> <<>>, ret |-> <<>>,
     asked |-> FALSE, failed |-> FALSE, t |-> 0, r |-> DefaultResponse]
NoPeerPiece == [live |-> TRUE, data |-> <<>>]

EverBad(objs) ==
    ever_bad \cup {objs[i].hostport : i \in {j \in PeerIds : objs[j].status = BAD}}

\* The announce of a read came back without a peer list: the connection
\* failed, the status was not 2xx or the body had a failure reason.
Failed(res, r) == res.asked /\ (res.exc # "none" \/ r.conn_error)

\* The time and the interval of the last announce that succeeded.
LastOk(res, r, t2) ==
    IF res.asked /\ ~Failed(res, r)
    THEN <<t2, IF r.has_interval THEN r.interval ELSE TRACKER_INTERVAL>>
    ELSE last_ok

\* except BitTorrentPeerException
Caught(exc) == exc = PeerExc

\* Where an exception takes the driver: one raised in the try block and caught
\* goes to the handler, which logs and falls through to clean_peers; any
\* other leaves run.
Unwind(exc, in_try) == IF in_try /\ Caught(exc) THEN "peers_clean" ELSE "crashed"

\* The locals of the iteration die with it.
Locals(next_pc, td, pz, c, pp, rc) ==
    LET over == next_pc \in {"peers_clean", "crashed"}
    IN  /\ todo' = (IF over THEN <<>> ELSE td)
        /\ piece' = (IF over THEN NoPiece ELSE pz)
        /\ cur' = (IF over THEN NoPeer ELSE c)
        /\ peer_piece' = (IF over THEN NoPeerPiece ELSE pp)
        /\ received' = (IF over THEN 0 ELSE rc)

\* Torrent.piece_directory, the root of the paths of the model
piece_directory == <<>>

\* Piece.valid of the PieceLocal at index i
piece_valid(i) == valid(piece_hashes[i], pieces[i])

\* Torrent.complete, on a piece map
complete(ps) == ~ \E i \in Pieces : ~valid(piece_hashes[i], ps[i])

Take(seq, n) == SubSeq(seq, 1, Min(n, Len(seq)))

\* Python's sum on a list
RECURSIVE sum(_)
sum(seq) == IF seq = <<>> THEN 0 ELSE Head(seq) + sum(Tail(seq))

\* Torrent.files: the files of the metainfo with their sizes, in the order
\* the dictionary lists them; the first ends inside the first piece.
files ==
    <<[name |-> "a", size |-> 1],
      [name |-> "b", size |-> NumPieces * piece_length - 1]>>

\* Torrent.total_size
total_size == sum([k \in 1..Len(files) |-> files[k].size])

downloaded_all(ps) == sum([k \in 1..NumPieces |-> piece_length])

\* Torrent.downloaded for pieces of length pl, flags saying of each piece
\* whether it is valid
downloaded_of(pl, flags) ==
    sum([k \in 1..Len(flags) |-> IF flags[k] THEN pl ELSE 0])

\* Torrent.remaining for files of total bytes
remaining_of(total, pl, flags) == total - downloaded_of(pl, flags)

\* Torrent.downloaded, on a piece map
downloaded(ps) ==
    downloaded_of(piece_length,
                  [k \in 1..NumPieces |-> valid(piece_hashes[k - 1], ps[k - 1])])

\* Torrent.remaining
remaining(ps) == total_size - downloaded(ps)

\* One turn of the loop of Torrent.pieces over the directory d: the piece
\* object of index i.  PieceLocal.__init__ drops its second argument and
\* starts with no data; the path is asked of that object, and load is handed
\* the path of the file where it takes a directory.
BuildPiece(d, i) ==
    LET fresh == <<>>
        path == piece_path(piece_directory, fresh)
        l == load(d, fresh, path)
    IN  IF ~isfile(d, path) THEN [exc |-> "none", data |-> fresh]
        ELSE IF l.exc # "none" THEN [exc |-> l.exc, data |-> fresh]
        ELSE IF ~valid(piece_hashes[i], l.data)
        THEN [exc |-> "Exception", data |-> l.data]
        ELSE [exc |-> "none", data |-> l.data]

\* Torrent.pieces when _pieces is None: the map built, up to the first piece
\* that raises.
Torrent_pieces(d) ==
    LET b == [i \in Pieces |-> BuildPiece(d, i)]
        raising == {i \in Pieces : b[i].exc # "none"}
        first == IF raising = {} THEN NumPieces
                 ELSE CHOOSE i \in raising : \A j \in raising : i <= j
    IN  [exc |-> IF raising = {} THEN "none" ELSE b[first].exc,
         pieces |-> [i \in Pieces |-> IF i < first THEN b[i].data ELSE <<>>]]

PeersSites == {"peers_open", "peers_select", "peers_advertise", "peers_clean"}

AfterPeers(site) ==
    CASE site = "peers_open" -> "open"
      [] site = "peers_select" -> "select_peer"
      [] site = "peers_advertise" -> "advertise"
      [] site = "peers_clean" -> "clean"

\* Torrent.peers read at time t: self._peers.update(peer_store.peers) for the
\* one tracker of the torrent.
ReadPeers(t, r, t2) ==
    LET res == Tracker_peers(t, r, t2)
        raised == res.exc # "none"
        op == IF raised THEN torrent_peers ELSE Update(torrent_peers, res.peers)
        next_pc == IF raised THEN Unwind(res.exc, pc # "peers_clean")
                   ELSE AfterPeers(pc)
    IN  /\ now' = (IF res.asked THEN t2 ELSE t)
        /\ last_run' = res.last_run
        /\ tracker_interval' = res.tracker_interval
        /\ tracker_peers' = res.peers
        /\ torrent_peers' = op
        /\ peer' = Collect(Built(peer, res), res.peers, op)
        /\ pc' = next_pc
        /\ Locals(next_pc,
                  IF pc = "peers_open" THEN Take(Values(op), MAX_PEERS)
                  ELSE IF pc = "peers_advertise" THEN Values(op) ELSE <<>>,
                  piece, cur, peer_piece, received)
        /\ event' = [NoEvent EXCEPT !.op = "peers", !.asked = res.asked,
                                    !.failed = Failed(res, r), !.exc = res.exc]
        /\ last_ok' = LastOk(res, r, t2)
        /\ UNCHANGED <<pieces, disk, ever_bad>>

\* What the tracker of a driver run answers.
DriverResponses == {r \in Responses : r.peers \subseteq Swarm}
\* The clock values a driver run reads, how the peers of its swarm answer
\* Peer.run and what they send: a part of TimePoints, of RunOutcomes and of
\* Messages that takes every handler to each of its ends but leaves out the
\* reads that break off inside a payload and the requests that are served.
DriverTimes == {0, TRACKER_INTERVAL + MaxTick}
DriverOutcomes == {o \in RunOutcomes : o.stage = "early"}
DriverMessages ==
    {m \in Messages :
        /\ m.at = "header"
        /\ m.mtype \in {NoType, 0, 1, 2, 4, 5, 6, 7, 8}
        /\ m.mtype = 5 => m.wellformed /\ \A i \in Pieces : m.bits[i]
        /\ m.mtype = 6 => ~m.wellformed \/ (m.size > BLOCK_SIZE /\ m.index = 0 /\ m.sent)
        /\ m.mtype = 7 => m.wellformed /\ m.index \in Pieces}

\* A read of Torrent.peers while the tracker may be announced to, the clock
\* saying a time of T and the tracker answering with a response of Rs.
AnnounceWith(T, Rs) ==
    /\ pc \in PeersSites
    /\ \E t \in T :
        /\ t >= now
        /\ ok_to_announce(last_run, tracker_interval, t)
        /\ \E r \in Rs : ReadPeers(t, r, t)

PeersAnnounce == AnnounceWith(DriverTimes, DriverResponses)

\* A read of Torrent.peers while it may not.
KeptWith(T) ==
    /\ pc \in PeersSites
    /\ \E t \in T :
        /\ t >= now
        /\ ~ok_to_announce(last_run, tracker_interval, t)
        /\ ReadPeers(t, DefaultResponse, t)

PeersKept == KeptWith(DriverTimes)

\* The same answers from every endpoint.
Everyone(S) == [e \in Endpoints |-> S]

LocalPieces_shared(ps, p) == [i \in Pieces |-> p.pieces[i].data]

\* The data of the torrent's pieces ps after a handler has left the peer as
\* p: Peer.pieces holds a PieceRemote of the peer's own for every piece, so
\* that no handler reaches a PieceLocal.
LocalPieces(ps, p) == ps

\* One inbound message m handled for peer id, with result res.
Handled(id, m, res) ==
    /\ res.p.uploaded <= MaxUploaded
    /\ peer' = [peer EXCEPT ![id] = res.p]
    /\ pieces' = LocalPieces(pieces, res.p)
    /\ ever_bad' = EverBad(peer')
    /\ event' = NoEvent

\* for peer in self.peers.values()[:self.MAX_PEERS]: peer.run() on a peer
\* that is NOT_STARTED or CLOSED; Os gives, for each endpoint, the ways it
\* answers.
PeerRunWith(Os) ==
    /\ pc = "open" /\ todo # <<>>
    /\ peer[Head(todo)].status \in {NOT_STARTED, CLOSED}
    /\ \E o \in Os[peer[Head(todo)].hostport] :
        LET id == Head(todo)
            res == run(peer[id], o)
            next_pc == IF res.exc = "none" THEN "open_msg" ELSE Unwind(res.exc, TRUE)
        IN  /\ peer' = [peer EXCEPT ![id] = res.p]
            /\ ever_bad' = EverBad(peer')
            /\ pc' = next_pc
            /\ Locals(next_pc, todo, piece, id, peer_piece, received)
            /\ event' = NoEvent
    /\ UNCHANGED <<now, last_run, tracker_interval, tracker_peers, torrent_peers,
                   pieces, disk, last_ok>>

PeerRun == PeerRunWith(Everyone(DriverOutcomes))

\* The loop passes a peer in another status.
PeerSkip ==
    /\ pc = "open" /\ todo # <<>>
    /\ peer[Head(todo)].status \notin {NOT_STARTED, CLOSED}
    /\ todo' = Tail(todo)
    /\ event' = NoEvent
    /\ UNCHANGED <<now, last_run, tracker_interval, tracker_peers, torrent_peers,
                   peer, pieces, disk, pc, piece, cur, peer_piece, received,
                   last_ok, ever_bad>>

\* peer.handle_message(), "should be bitfield"; Ms gives, for each endpoint,
\* the messages it may send.
FirstMessageWith(Ms) ==
    /\ pc = "open_msg"
    /\ \E m \in Ms[peer[cur].hostport] :
        LET res == handle_message(peer[cur], m)
            next_pc == IF res.exc = "none" THEN "open" ELSE Unwind(res.exc, TRUE)
        IN  /\ Handled(cur, m, res)
            /\ pc' = next_pc
            /\ Locals(next_pc, Tail(todo), piece, NoPeer, peer_piece, received)
    /\ UNCHANGED <<now, last_run, tracker_interval, tracker_peers, torrent_peers,
                   disk, last_ok>>

FirstMessage == FirstMessageWith(Everyone(DriverMessages))

\* piece = choice(filter(lambda piece: not piece.valid, ...)); choice raises
\* IndexError on an empty list.
SelectPiece ==
    /\ pc = "open" /\ todo = <<>>
    /\ LET invalid == {i \in Pieces : ~piece_valid(i)}
       IN  IF invalid = {}
           THEN /\ pc' = Unwind("IndexError", TRUE)
                /\ Locals(pc', todo, piece, cur, peer_piece, received)
                /\ event' = NoEvent
           ELSE /\ pc' = "peers_select"
                /\ \E i \in invalid :
                    /\ Locals(pc', todo, i, cur, peer_piece, received)
                    /\ event' = NoEvent
    /\ UNCHANGED <<now, last_run, tracker_interval, tracker_peers, torrent_peers,
                   peer, pieces, disk, last_ok, ever_bad>>

Eligible_any == {torrent_peers[e] : e \in Endpoints} \ {NoPeer}

\* The peers the filter of Torrent.run lets through.
Eligible ==
    {id \in {torrent_peers[e] : e \in Endpoints} \ {NoPeer} :
        peer[id].pieces[piece].have /\ ~(peer[id].status = CHOKE)}

\* peer = choice(filter(...)) on the table just read
SelectPeer ==
    /\ pc = "select_peer"
    /\ IF Eligible = {}
       THEN /\ pc' = Unwind("IndexError", TRUE)
            /\ Locals(pc', todo, piece, cur, peer_piece, received)
            /\ event' = NoEvent
       ELSE /\ pc' = "acquire"
            /\ \E id \in Eligible :
                /\ Locals(pc', todo, piece, id, peer_piece, received)
                /\ event' = NoEvent
    /\ UNCHANGED <<now, last_run, tracker_interval, tracker_peers, torrent_peers,
                   peer, pieces, disk, last_ok, ever_bad>>

\* The data of the PieceRemote that acquire holds in peer_piece: the one in
\* Peer.pieces, until recv_bitfield puts new objects there.
PeerPieceData ==
    IF peer_piece.live THEN peer[cur].pieces[piece].data ELSE peer_piece.data

\* Peer.acquire up to its second loop: send_interested and the requests.  A
\* peer that was never set up has no conn attribute.  Oks gives, for each
\* endpoint, whether sendall to it may go through and may fail.
AcquireSendWith(Oks) ==
    /\ pc = "acquire"
    /\ \E ok \in Oks[peer[cur].hostport] :
        LET res == IF peer[cur].conn = "none"
                   THEN R(peer[cur], "AttributeError", 0)
                   ELSE send(peer[cur], ok)
            next_pc == IF res.exc = "none" THEN "acquire_loop"
                       ELSE Unwind(res.exc, TRUE)
        IN  /\ peer' = [peer EXCEPT ![cur] = res.p]
            /\ ever_bad' = EverBad(peer')
            /\ pc' = next_pc
            /\ Locals(next_pc, todo, piece, cur, NoPeerPiece, 0)
            /\ event' = [NoEvent EXCEPT !.op = "send_interested", !.out = res.out]
    /\ UNCHANGED <<now, last_run, tracker_interval, tracker_peers, torrent_peers,
                   pieces, disk, last_ok>>

AcquireSend == AcquireSendWith(Everyone(BOOLEAN))

\* while not peer_piece.valid or received < self.BLOCK_SIZE
AcquireWaits ==
    ~valid(piece_hashes[piece], PeerPieceData) \/ received < BLOCK_SIZE

\* One turn of the loop.  received is only ever compared with BLOCK_SIZE and
\* is kept up to that value.
AcquireMessageWith(Ms) ==
    /\ pc = "acquire_loop" /\ AcquireWaits
    /\ \E m \in Ms[peer[cur].hostport] :
        LET res == handle_message(peer[cur], m)
            handler == type_convert(m.mtype)
            next_pc == IF res.exc = "none" THEN "acquire_loop"
                       ELSE Unwind(res.exc, TRUE)
        IN  /\ Handled(cur, m, res)
            /\ pc' = next_pc
            /\ Locals(next_pc, todo, piece, cur,
                      IF handler = "recv_bitfield" /\ peer_piece.live
                      THEN [live |-> FALSE, data |-> PeerPieceData]
                      ELSE peer_piece,
                      IF handler = "recv_piece"
                      THEN Min(received + res.ret, BLOCK_SIZE) ELSE received)
    /\ UNCHANGED <<now, last_run, tracker_interval, tracker_peers, torrent_peers,
                   disk, last_ok>>

AcquireMessage == AcquireMessageWith(Everyone(DriverMessages))

\* Torrent.split_out on the files fs: each file is opened for writing and
\* given extra_data, which is "" for the first; then "for piece in
\* self.pieces" walks the keys of the piece map, and the first key, a str, has
\* no attribute data.
split_out_files(fs) ==
    IF fs = <<>> THEN [exc |-> "none", written |-> <<>>]
    ELSE IF NumPieces = 0
    THEN [exc |-> "none",
          written |-> [k \in 1..Len(fs) |-> [name |-> fs[k].name, data |-> <<>>]]]
    ELSE [exc |-> "AttributeError",
          written |-> <<[name |-> fs[1].name, data |-> <<>>]>>]

\* What split_out raises in the driver.
split_out == split_out_files(files).exc

\* The end of acquire and what run does with the piece returned:
\* piece.complete, the save under _pieces, split_out when complete.
AcquireDone ==
    /\ pc = "acquire_loop" /\ ~AcquireWaits
    /\ LET data == PeerPieceData
           ok == valid(piece_hashes[piece], data)
           ps == [pieces EXCEPT ![piece] = data]
           exc == IF ~ok THEN PeerExc
                  ELSE IF complete(ps) THEN split_out ELSE "none"
           next_pc == IF exc = "none" THEN "peers_advertise" ELSE Unwind(exc, TRUE)
       IN  /\ peer' = (IF ok THEN peer ELSE [peer EXCEPT ![cur] = bad(peer[cur])])
           /\ ever_bad' = EverBad(peer')
           /\ pieces' = (IF ok THEN ps ELSE pieces)
           /\ disk' = (IF ok THEN save(disk, piece_path(piece_directory, data), data)
                       ELSE disk)
           /\ pc' = next_pc
           /\ Locals(next_pc, todo, piece, NoPeer, NoPeerPiece, 0)
           /\ event' = NoEvent
    /\ UNCHANGED <<now, last_run, tracker_interval, tracker_peers, torrent_peers,
                   last_ok>>

\* Torrent.advertise_piece: send_have to a peer in status OK
AdvertiseSendWith(Oks) ==
    /\ pc = "advertise" /\ todo # <<>>
    /\ peer[Head(todo)].status = OK
    /\ \E ok \in Oks[peer[Head(todo)].hostport] :
        LET id == Head(todo)
            res == send(peer[id], ok)
            next_pc == IF res.exc = "none" THEN "advertise" ELSE Unwind(res.exc, TRUE)
        IN  /\ peer' = [peer EXCEPT ![id] = res.p]
            /\ ever_bad' = EverBad(peer')
            /\ pc' = next_pc
            /\ Locals(next_pc, Tail(todo), piece, cur, peer_piece, received)
            /\ event' = [NoEvent EXCEPT !.op = "send_have", !.out = res.out]
    /\ UNCHANGED <<now, last_run, tracker_interval, tracker_peers, torrent_peers,
                   pieces, disk, last_ok>>

AdvertiseSend == AdvertiseSendWith(Everyone(BOOLEAN))

\* advertise_piece passes a peer that is not OK.
AdvertiseSkip ==
    /\ pc = "advertise" /\ todo # <<>>
    /\ peer[Head(todo)].status # OK
    /\ todo' = Tail(todo)
    /\ event' = NoEvent
    /\ UNCHANGED <<now, last_run, tracker_interval, tracker_peers, torrent_peers,
                   peer, pieces, disk, pc, piece, cur, peer_piece, received,
                   last_ok, ever_bad>>

\* The try block ends.
AdvertiseDone ==
    /\ pc = "advertise" /\ todo = <<>>
    /\ pc' = "peers_clean"
    /\ Locals(pc', todo, piece, cur, peer_piece, received)
    /\ event' = NoEvent
    /\ UNCHANGED <<now, last_run, tracker_interval, tracker_peers, torrent_peers,
                   peer, pieces, disk, last_ok, ever_bad>>

\* Torrent.clean_peers, on the table just read
clean_peers(table) ==
    [e \in Endpoints |->
        IF table[e] # NoPeer /\ peer[table[e]].status = CLOSED
        THEN NoPeer ELSE table[e]]

CleanPeers ==
    /\ pc = "clean"
    /\ torrent_peers' = clean_peers(torrent_peers)
    /\ pc' = "peers_open"
    /\ event' = NoEvent
    /\ UNCHANGED <<now, last_run, tracker_interval, tracker_peers, peer, pieces,
                   disk, todo, piece, cur, peer_piece, received, last_ok, ever_bad>>

\* Tracker.__init__, Torrent.__init__ and an empty _pieces directory; run is
\* at the top of its loop.
Init ==
    /\ now = 0
    /\ last_run = NoTime
    /\ tracker_interval = TRACKER_INTERVAL
    /\ tracker_peers = [e \in Endpoints |-> NoPeer]
    /\ torrent_peers = [e \in Endpoints |-> NoPeer]
    /\ peer = [i \in PeerIds |-> FreePeer]
    /\ pieces = [i \in Pieces |-> <<>>]
    /\ disk = {}
    /\ pc = "peers_open"
    /\ todo = <<>>
    /\ piece = NoPiece
    /\ cur = NoPeer
    /\ peer_piece = NoPeerPiece
    /\ received = 0
    /\ event = NoEvent
    /\ last_ok = <<NoTime, 0>>
    /\ ever_bad = {}

Next ==
    \/ PeersAnnounce
    \/ PeersKept
    \/ PeerRun
    \/ PeerSkip
    \/ FirstMessage
    \/ SelectPiece
    \/ SelectPeer
    \/ AcquireSend
    \/ AcquireMessage
    \/ AcquireDone
    \/ AdvertiseSend
    \/ AdvertiseSkip
    \/ AdvertiseDone
    \/ CleanPeers

Spec == Init /\ [][Next]_vars

(***************************************************************************)
(* The tracker object on its own: reads of Tracker.peers                   *)
(***************************************************************************)
\* One read of the property; an exception of announce goes to the caller.
TrackerRead(t, r, t2) ==
    LET res == Tracker_peers(t, r, t2)
    IN  /\ now' = (IF res.asked THEN t2 ELSE t)
        /\ last_run' = res.last_run
        /\ tracker_interval' = res.tracker_interval
        /\ tracker_peers' = res.peers
        /\ peer' = Collect(Built(peer, res), res.peers, torrent_peers)
        /\ event' = [NoEvent EXCEPT !.op = "peers", !.asked = res.asked,
                                    !.failed = Failed(res, r), !.exc = res.exc,
                                    !.t = t, !.r = r]
        /\ last_ok' = LastOk(res, r, t2)
        /\ UNCHANGED <<torrent_peers, pieces, disk, pc, todo, piece, cur,
                       peer_piece, received, ever_bad>>

TrackerAnnounce ==
    \E t \in TimePoints :
        /\ t >= now
        /\ ok_to_announce(last_run, tracker_interval, t)
        /\ \E r \in Responses, t2 \in TimePoints : t2 >= t /\ TrackerRead(t, r, t2)

TrackerKept ==
    \E t \in TimePoints :
        /\ t >= now
        /\ ~ok_to_announce(last_run, tracker_interval, t)
        /\ TrackerRead(t, DefaultResponse, t)

NextTracker ==
    \/ TrackerAnnounce
    \/ TrackerKept

SpecTracker == Init /\ [][NextTracker]_vars

(***************************************************************************)
(* One Peer object on its own: Peer.run and Peer.handle_message            *)
(***************************************************************************)
WireId == 1

\* The tracker has reported the first endpoint and the driver has read it.
InitWire ==
    /\ now = 0
    /\ last_run = 0
    /\ tracker_interval = TRACKER_INTERVAL
    /\ tracker_peers = [e \in Endpoints |-> IF e = HostPorts[1] THEN WireId ELSE NoPeer]
    /\ torrent_peers = tracker_peers
    /\ peer = [i \in PeerIds |-> IF i = WireId THEN Peer(HostPorts[1]) ELSE FreePeer]
    /\ pieces = [i \in Pieces |-> <<>>]
    /\ disk = {}
    /\ pc = "open"
    /\ todo = <<WireId>>
    /\ piece = NoPiece
    /\ cur = NoPeer
    /\ peer_piece = NoPeerPiece
    /\ received = 0
    /\ event = NoEvent
    /\ last_ok = <<0, TRACKER_INTERVAL>>
    /\ ever_bad = {}

\* How far Peer.run gets under outcome o: the connection is refused, the
\* handshake cannot be sent, or recv_handshake ends as o.hs says.
Reached(o) ==
    IF ~o.connect THEN "refused" ELSE IF ~o.sent THEN "unsent" ELSE o.hs

\* Peer.run, as the driver calls it on a peer that is NOT_STARTED or CLOSED
WireRun ==
    /\ peer[WireId].status \in {NOT_STARTED, CLOSED}
    /\ \E o \in RunOutcomes :
        LET res == run(peer[WireId], o)
        IN  /\ peer' = [peer EXCEPT ![WireId] = res.p]
            /\ ever_bad' = EverBad(peer')
            /\ event' = [NoEvent EXCEPT !.op = "run", !.exc = res.exc,
                                        !.pre = peer[WireId].status,
                                        !.hs = Reached(o),
                                        !.fail = (IF Reached(o) \in {"error", "eof"}
                                                  THEN Reached(o) ELSE "none")]
    /\ UNCHANGED <<now, last_run, tracker_interval, tracker_peers, torrent_peers,
                   pieces, disk, pc, todo, piece, cur, peer_piece, received,
                   last_ok>>

\* Peer.handle_message on a connected peer; whole says that every byte of
\* the message arrived.
WireMessage ==
    /\ peer[WireId].conn = "open"
    /\ \E m \in Messages :
        LET res == handle_message(peer[WireId], m)
        IN  /\ res.p.uploaded <= MaxUploaded
            /\ peer' = [peer EXCEPT ![WireId] = res.p]
            /\ ever_bad' = EverBad(peer')
            /\ event' = [NoEvent EXCEPT !.op = "message", !.mtype = m.mtype,
                                        !.pre = peer[WireId].status,
                                        !.whole = (m.fail = "none"),
                                        !.exc = res.exc, !.fail = m.fail,
                                        !.out = res.out,
                                        !.oversize = (m.mtype = 6 /\ m.wellformed
                                                      /\ m.size > BLOCK_SIZE),
                                        !.args = [length |-> declared(m),
                                                  taken |-> taken(m)]]
    /\ UNCHANGED <<now, last_run, tracker_interval, tracker_peers, torrent_peers,
                   pieces, disk, pc, todo, piece, cur, peer_piece, received,
                   last_ok>>

NextWire ==
    \/ WireRun
    \/ WireMessage

SpecWire == InitWire /\ [][NextWire]_vars

(***************************************************************************)
(* One connected Peer that sends blocks and asks for blocks                *)
(***************************************************************************)
\* The request and piece messages of a peer, with their offsets.
Requests ==
    {[M0 EXCEPT !.mtype = 6, !.plen = 1, !.index = i, !.begin = b, !.size = z] :
        i \in Pieces, b \in 0..(piece_length - 1), z \in 1..BLOCK_SIZE}
Served ==
    {[M0 EXCEPT !.mtype = 7, !.plen = 1, !.index = i, !.begin = b,
                !.block = Content(i)] : i \in Pieces, b \in 0..(piece_length - 1)}
    \cup {[M0 EXCEPT !.mtype = 7, !.plen = 1, !.index = i, !.block = Corrupt] :
        i \in Pieces}

\* The peer has been opened by Peer.run, and the torrent holds any of its
\* pieces already.
InitServe ==
    /\ now = 0
    /\ last_run = 0
    /\ tracker_interval = TRACKER_INTERVAL
    /\ tracker_peers = [e \in Endpoints |-> IF e = HostPorts[1] THEN WireId ELSE NoPeer]
    /\ torrent_peers = tracker_peers
    /\ peer = [i \in PeerIds |->
                IF i = WireId
                THEN run(Peer(HostPorts[1]),
                         [connect |-> TRUE, sent |-> TRUE, hs |-> "ok",
                          stage |-> "early", ih |-> info_hash]).p
                ELSE FreePeer]
    /\ pieces \in [Pieces -> {<<>>} \cup {Content(i) : i \in Pieces}]
    /\ \A i \in Pieces : pieces[i] \in {<<>>, Content(i)}
    /\ disk = {}
    /\ pc = "open_msg"
    /\ todo = <<WireId>>
    /\ piece = NoPiece
    /\ cur = WireId
    /\ peer_piece = NoPeerPiece
    /\ received = 0
    /\ event = NoEvent
    /\ last_ok = <<0, TRACKER_INTERVAL>>
    /\ ever_bad = {}

\* Peer.handle_message on a message of Ms, the exchange kept in event.
ServeWith(Ms, op) ==
    /\ peer[WireId].conn = "open"
    /\ \E m \in Ms :
        LET res == handle_message(peer[WireId], m)
        IN  /\ res.p.uploaded <= MaxUploaded
            /\ peer' = [peer EXCEPT ![WireId] = res.p]
            /\ ever_bad' = EverBad(peer')
            /\ event' = [NoEvent EXCEPT !.op = op, !.mtype = m.mtype,
                                        !.pre = peer[WireId].status,
                                        !.whole = (m.fail = "none"),
                                        !.exc = res.exc, !.out = res.out,
                                        !.args = [index |-> m.index, begin |-> m.begin,
                                                  size |-> m.size],
                                        !.ret = res.wire]
    /\ UNCHANGED <<now, last_run, tracker_interval, tracker_peers, torrent_peers,
                   pieces, disk, pc, todo, piece, cur, peer_piece, received,
                   last_ok>>

\* The peer asks for a block.
ServeRequest == ServeWith(Requests, "request")
\* The peer sends a block.
ServePiece == ServeWith(Served, "piece")

NextServe ==
    \/ ServeRequest
    \/ ServePiece

SpecServe == InitServe /\ [][NextServe]_vars

(***************************************************************************)
(* The UDP tracker's connect step                                          *)
(***************************************************************************)
\* generate_transaction_id: random.randrange(0, 255), at its two ends
TransactionIds == {0, 254}

\* connection_request with the transaction id drawn and the datagram that
\* comes back
ConnectionRequest ==
    /\ \E tid \in TransactionIds : \E buf \in Datagrams :
        LET res == connection_request(buf, tid)
        IN  event' = [NoEvent EXCEPT !.op = "connection_request",
                        !.args = [buf |-> buf, transaction_id |-> tid],
                        !.exc = res.exc, !.ret = res.ret]
    /\ UNCHANGED <<now, last_run, tracker_interval, tracker_peers, torrent_peers,
                   peer, pieces, disk, pc, todo, piece, cur, peer_piece, received,
                   last_ok, ever_bad>>

\* parse_connection_response called on its own
ParseConnectionResponse ==
    /\ \E tid \in TransactionIds : \E buf \in Datagrams :
        LET res == parse_connection_response(buf, tid)
        IN  event' = [NoEvent EXCEPT !.op = "parse_connection_response",
                        !.args = [buf |-> buf, transaction_id |-> tid],
                        !.exc = res.exc, !.ret = res.ret]
    /\ UNCHANGED <<now, last_run, tracker_interval, tracker_peers, torrent_peers,
                   peer, pieces, disk, pc, todo, piece, cur, peer_piece, received,
                   last_ok, ever_bad>>

NextUDP ==
    \/ ConnectionRequest
    \/ ParseConnectionResponse

SpecUDP == Init /\ [][NextUDP]_vars

(***************************************************************************)
(* The files of a torrent: the save directory made, the output written     *)
(***************************************************************************)
\* The save paths of a run, the names a metainfo may give the torrent, and
\* the directories in place before the run: the root and the save path.
SavePaths == {<<Sep, "d">>, <<Sep, "d", Sep>>}
NameTokens == {Sep, Parent, "d", "2"}
Names == UNION {[1..n -> NameTokens] : n \in 1..MaxName}
Dirs == {<<>>, << <<"d">> >>}

\* The save directory lies outside the save path.
Outside(save_path, name) ==
    LET sd == normpath(save_directory(save_path, name))
        sp == normpath(save_path)
    IN  ~(Len(sp) <= Len(sd) /\ SubSeq(sd, 1, Len(sp)) = sp)

\* Torrent.create_directory, the first statement of Torrent.run
CreateDirectory ==
    /\ \E save_path \in SavePaths : \E name \in Names :
        LET res == create_directory(save_path, name, Dirs)
        IN  event' = [NoEvent EXCEPT !.op = "create_directory",
                        !.args = [save_path |-> save_path, name |-> name],
                        !.exc = res.exc, !.ret = res.made]
    /\ UNCHANGED <<now, last_run, tracker_interval, tracker_peers, torrent_peers,
                   peer, pieces, disk, pc, todo, piece, cur, peer_piece, received,
                   last_ok, ever_bad>>

\* The ways to cut the torrent's bytes into files: the sizes of the files.
RECURSIVE Cuts(_)
Cuts(n) ==
    IF n = 0 THEN {<<>>}
    ELSE UNION {{<<k>> \o c : c \in Cuts(n - k)} : k \in 1..n}
Layouts ==
    {[k \in 1..Len(c) |-> [name |-> k, size |-> c[k]]] :
        c \in Cuts(NumPieces * piece_length)}

\* The piece buffers in the order of the piece index, one after the other
RECURSIVE Concat(_)
Concat(n) == IF n = 0 THEN <<>> ELSE Concat(n - 1) \o Content(n - 1)

\* Torrent.split_out, every piece being valid
SplitOut ==
    /\ \E fs \in Layouts :
        LET res == split_out_files(fs)
        IN  event' = [NoEvent EXCEPT !.op = "split_out", !.args = fs,
                        !.exc = res.exc, !.ret = res.written]
    /\ UNCHANGED <<now, last_run, tracker_interval, tracker_peers, torrent_peers,
                   peer, pieces, disk, pc, todo, piece, cur, peer_piece, received,
                   last_ok, ever_bad>>

NextFiles ==
    \/ CreateDirectory
    \/ SplitOut

SpecFiles == Init /\ [][NextFiles]_vars

(***************************************************************************)
(* The driver in a swarm of two: one peer refuses every connection, the    *)
(* other serves                                                            *)
(***************************************************************************)
Refuser == HostPorts[1]
Server == HostPorts[2]

\* The tracker answers every announce with a peer list that names the
\* serving peer, with or without the refusing one, and no interval.
SwarmResponses ==
    {r \in Responses :
        /\ ~r.conn_error /\ r.status_code = 200 /\ ~r.failure_reason
        /\ ~r.has_interval /\ Server \in r.peers}

\* The run takes less than the announce interval.
SwarmTimes == {t \in TimePoints : t < TRACKER_INTERVAL}

\* conn.connect raises socket.error for the one; the other accepts and
\* answers the handshake with this torrent's info_hash.
SwarmOutcomes ==
    [e \in Endpoints |->
        {o \in DriverOutcomes :
            IF e = Refuser THEN ~o.connect
            ELSE o.connect /\ o.sent /\ o.hs = "ok" /\ o.ih = info_hash}]

\* The serving peer advertises every piece in a bitfield,
SwarmBitfields ==
    Everyone({m \in DriverMessages : m.mtype = 5 /\ m.fail = "none"})

\* answers a request with the block of the piece asked for, and may choke
\* and unchoke meanwhile,
SwarmBlocks ==
    Everyone({m \in DriverMessages :
                /\ m.fail = "none"
                /\ \/ m.mtype \in {0, 1}
                   \/ m.mtype = 7 /\ m.index = piece /\ m.block = Content(piece)})

\* and takes everything sent to it.
SwarmSends == Everyone({TRUE})

SwarmAnnounce == AnnounceWith(SwarmTimes, SwarmResponses)
SwarmKept == KeptWith(SwarmTimes)
SwarmRun == PeerRunWith(SwarmOutcomes)
SwarmFirstMessage == FirstMessageWith(SwarmBitfields)
SwarmAcquireSend == AcquireSendWith(SwarmSends)
SwarmAcquireMessage == AcquireMessageWith(SwarmBlocks)
SwarmAdvertiseSend == AdvertiseSendWith(SwarmSends)

NextSwarm ==
    \/ SwarmAnnounce
    \/ SwarmKept
    \/ SwarmRun
    \/ PeerSkip
    \/ SwarmFirstMessage
    \/ SelectPiece
    \/ SelectPeer
    \/ SwarmAcquireSend
    \/ SwarmAcquireMessage
    \/ AcquireDone
    \/ SwarmAdvertiseSend
    \/ AdvertiseSkip
    \/ AdvertiseDone
    \/ CleanPeers

\* Torrent.run is one thread that executes its next statement; every socket
\* call returns or times out.
SpecSwarm == Init /\ [][NextSwarm]_vars /\ WF_vars(NextSwarm)

(***************************************************************************)
(* The tracker's announce scheduling (SpecTracker)                         *)
(***************************************************************************)
\* The condition of Tracker.ok_to_announce as the documentation states it,
\* for a read at time t.
ElapsedStrictly(t) == last_run = NoTime \/ t > last_run + tracker_interval

C3_ForbiddenReadKeeps ==
    [][event'.op = "peers" /\ ~ElapsedStrictly(event'.t) =>
        /\ ~event'.asked
        /\ tracker_peers' = tracker_peers
        /\ peer' = peer
        /\ last_run' = last_run
        /\ tracker_interval' = tracker_interval]_vars

\* A read was refused while the mapping held a peer.
C3_Witness ==
    /\ event.op = "peers" /\ ~event.asked
    /\ \E e \in Endpoints : tracker_peers[e] # NoPeer

\* C4: whenever last_run + tracker_interval <= now, the instant of equality
\* included, a read of Tracker.peers is permitted to announce.
C4_PermittedFromNextRun ==
    [][event'.op = "peers" /\ last_run # NoTime
         /\ last_run + tracker_interval <= event'.t => event'.asked]_vars

(***************************************************************************)
(* The wire engine (SpecWire)                                              *)
(***************************************************************************)
\* C7: a choke message handled on a peer in status OK leaves it in CHOKE, an
\* unchoke message handled on a peer in status CHOKE leaves it in OK, and an
\* interested, not interested, have, bitfield, piece, cancel or port message
\* leaves the status as it was; the message is one that arrived whole.
C7_ChokeUnchoke ==
    [][event'.op = "message" /\ event'.whole =>
        /\ (event'.mtype = 0 /\ peer[WireId].status = OK
                => peer'[WireId].status = CHOKE)
        /\ (event'.mtype = 1 /\ peer[WireId].status = CHOKE
                => peer'[WireId].status = OK)
        /\ (event'.mtype \in {2, 3, 4, 5, 7, 8, 9}
                => peer'[WireId].status = peer[WireId].status)]_vars

\* An unchoke message was handled on a choked peer.
C7_Witness ==
    /\ event.op = "message" /\ event.whole
    /\ event.mtype = 1 /\ event.pre = CHOKE
    /\ peer[WireId].status = OK

\* C11: a receive error or a truncated read, during the handshake or during
\* a message, leaves the peer in status CLOSED, whatever its status was.
C11_ReadFailureCloses ==
    [][event'.op \in {"run", "message"} /\ event'.fail # "none"
            => peer'[WireId].status = CLOSED]_vars

\* C12: a remote handshake with another protocol-id string puts the peer in
\* status BAD and raises a peer error, and nothing of reserved, info_hash and
\* peer_id is taken from that handshake.
C12_BadProtocol ==
    [][event'.op = "run" /\ event'.hs = "bad_protocol" =>
        /\ peer'[WireId].status = BAD
        /\ event'.exc = PeerExc
        /\ peer'[WireId].info_hash = peer[WireId].info_hash
        /\ ~peer'[WireId].handshaken]_vars

\* A peer that was connected before answered a new connection with another
\* protocol string.
C12_Witness ==
    /\ event.op = "run" /\ event.hs = "bad_protocol" /\ event.pre = CLOSED
    /\ peer[WireId].status = BAD

\* C13: a request whose length field is greater than BLOCK_SIZE puts the peer
\* in status BAD and raises a peer error; no piece message is sent in reply
\* and the uploaded counter is unchanged.
C13_OversizeRequest ==
    [][event'.op = "message" /\ event'.oversize /\ event'.whole =>
        /\ peer'[WireId].status = BAD
        /\ event'.exc = PeerExc
        /\ event'.out = 0
        /\ peer'[WireId].uploaded = peer[WireId].uploaded]_vars

\* An oversize request was handled on a peer that was not choked.
C13_Witness ==
    /\ event.op = "message" /\ event.oversize /\ event.whole
    /\ event.pre = OK /\ peer[WireId].status = BAD

(***************************************************************************)
(* The driver (Spec)                                                       *)
(***************************************************************************)
\* The Peer objects of the driver's table.
Listed == {torrent_peers[e] : e \in Endpoints} \ {NoPeer}

\* C5: a failed announce (connection failure, status outside 2xx, a response
\* with a failure reason) leaves the tracker's mapping, last_run and the
\* driver's table as they were and the driver running, so that the next read
\* announces again.
C5_FailedAnnounceRetried ==
    [][event'.op = "peers" /\ event'.failed =>
        /\ tracker_peers' = tracker_peers
        /\ last_run' = last_run
        /\ torrent_peers' = torrent_peers
        /\ pc' # "crashed"]_vars

\* C6: no error raised inside an iteration of Torrent.run leaves run.
C6_NoErrorLeavesRun == pc # "crashed"

\* C8: once the peer of an endpoint has been BAD, the table never holds a peer
\* for that endpoint in another status.
C8_BadIsSticky ==
    \A e \in ever_bad :
        torrent_peers[e] # NoPeer => peer[torrent_peers[e]].status = BAD

\* C9: a peer whose status is OK has an open socket and has received the
\* remote handshake whole.
C9_OkMeansHandshaken ==
    \A id \in Listed :
        peer[id].status = OK => peer[id].conn = "open" /\ peer[id].handshaken

\* C10: for every peer in status OK, the info-hash received in its handshake
\* is the torrent's info_hash.
C10_OkMeansSameTorrent ==
    \A id \in Listed :
        peer[id].status = OK /\ peer[id].info_hash # "None"
            => peer[id].info_hash = info_hash

\* C14: no length-prefixed message is sent to a peer or read from it before
\* the handshake on that connection has completed.
C14_HandshakeFirst ==
    [][/\ (event'.op = "send_interested" /\ event'.out > 0
                => peer[cur].handshaken)
       /\ (event'.op = "send_have" /\ event'.out > 0
                => peer[Head(todo)].handshaken)
       /\ (pc = "open_msg" \/ (pc = "acquire_loop" /\ AcquireWaits)
                => peer[cur].handshaken)]_vars

\* C15: Peer.acquire needs no further inbound message once the PieceRemote it
\* is after is valid.
C15_AcquireEndsWhenValid ==
    pc = "acquire_loop" /\ valid(piece_hashes[piece], PeerPieceData)
        => ~AcquireWaits

\* C16: when the buffer of the PieceRemote has reached the piece length and
\* its digest is not the expected one, Peer.acquire stops waiting for
\* messages (and puts the peer in status BAD).
C16_FullInvalidBufferFails ==
    /\ pc = "acquire_loop"
    /\ Len(PeerPieceData) >= piece_length
    /\ ~valid(piece_hashes[piece], PeerPieceData)
    => ~AcquireWaits

\* C17: a have is only sent for a local piece that is valid and to a peer in
\* status OK, and after a piece has been acquired the have goes to every
\* peer of the table that is in status OK.
C17_HaveBroadcast ==
    [][/\ (event'.op = "send_have" /\ event'.out > 0
                => piece_valid(piece) /\ peer[Head(todo)].status = OK)
       /\ (pieces' # pieces => pc' = "peers_advertise")
       /\ (pc = "advertise" /\ pc' # "advertise"
                => \A k \in 2..Len(todo) : peer[todo[k]].status # OK)]_vars

\* C18: every write under the _pieces directory is made by the driver, at the
\* end of an acquisition, from a local piece whose data has the digest the
\* metainfo declares, into the file named by that digest.
C18_WritesAreValid ==
    [][disk' # disk =>
        /\ pc = "acquire_loop" /\ ~AcquireWaits
        /\ digest(pieces'[piece]) = piece_hashes[piece]
        /\ disk' \ disk = {[name |-> piece_hashes[piece], data |-> pieces'[piece]]}]_vars

\* A piece file has been written.
C18_Witness ==
    \E f \in disk : \E i \in Pieces : f.name = piece_hashes[i] /\ f.data = pieces[i]

\* C20: an endpoint that clean_peers has removed from the driver's table stays
\* absent until an announce reports it: an entry only appears in a read that
\* announces.
C20_RemovedStaysAbsent ==
    [][\A e \in Endpoints :
          torrent_peers[e] = NoPeer /\ torrent_peers'[e] # NoPeer
              => event'.op = "peers" /\ event'.asked /\ ~event'.failed]_vars

\* C29: when an iteration of the driver reaches the acquisition, the piece it
\* selected is not valid, and the peer it selected has that piece and is not
\* in status CHOKE.
C29_SelectionFilters ==
    pc = "acquire" =>
        /\ piece \in Pieces /\ ~piece_valid(piece)
        /\ cur \in Listed
        /\ peer[cur].pieces[piece].have
        /\ peer[cur].status # CHOKE

\* An acquisition is reached while another piece is already valid.
C29_Witness ==
    /\ pc = "acquire"
    /\ \E i \in Pieces : piece_valid(i)

\* C33: no message handled for a peer changes the data of a piece of the
\* torrent's piece map; the data of a local piece changes only where the
\* driver merges into it the PieceRemote that an acquisition returned, whose
\* data has the digest the metainfo declares, and no other piece changes with
\* it.
C33_LocalDataFrame ==
    [][/\ (pc = "open_msg" \/ (pc = "acquire_loop" /\ AcquireWaits)
                => pieces' = pieces)
       /\ (pieces' # pieces =>
                /\ pc = "acquire_loop" /\ ~AcquireWaits
                /\ pieces'[piece] = PeerPieceData
                /\ digest(pieces'[piece]) = piece_hashes[piece]
                /\ \A i \in Pieces \ {piece} : pieces'[i] = pieces[i])]_vars

\* The driver has just merged an acquired piece, from a peer whose buffers
\* hold a block.
C33_Witness ==
    /\ pc = "peers_advertise"
    /\ piece \in Pieces /\ pieces[piece] = Content(piece)
    /\ \E id \in Listed : peer[id].pieces[piece].data # <<>>

\* C35: an announce that succeeds leaves, for every endpoint the driver's
\* table held, the Peer object that was there, with its status, connection,
\* have flags and buffers; an endpoint that enters the table gets a new Peer
\* in status NOT_STARTED.
C35_ReannounceKeepsPeers ==
    [][event'.op = "peers" /\ event'.asked /\ ~event'.failed =>
        \A e \in Endpoints :
            /\ (torrent_peers[e] # NoPeer =>
                    /\ torrent_peers'[e] # NoPeer
                    /\ peer'[torrent_peers'[e]] = peer[torrent_peers[e]])
            /\ (torrent_peers[e] = NoPeer /\ torrent_peers'[e] # NoPeer =>
                    peer'[torrent_peers'[e]] = Peer(e))]_vars

\* C36: the peer that Peer.acquire is called on is in status OK.
C36_AcquireOnlyOk == pc = "acquire" => peer[cur].status = OK

\* C38: while Peer.acquire waits for blocks, whatever message is handled, the
\* PieceRemote whose validity acquire tests is the one that Peer.pieces holds
\* for the piece and that piece messages fill, and the blocks it has
\* received stay in it; so that once every block has arrived after a
\* bitfield or a have, acquire has a valid piece to return.
C38_AcquireSeesBlocks ==
    [][pc = "acquire_loop" /\ pc' = "acquire_loop" =>
        /\ PeerPieceData' = peer'[cur].pieces[piece].data
        /\ Len(peer'[cur].pieces[piece].data) >= Len(peer[cur].pieces[piece].data)
        /\ (valid(piece_hashes[piece], peer'[cur].pieces[piece].data)
                /\ received' >= BLOCK_SIZE => ~AcquireWaits')]_vars

(***************************************************************************)
(* The piece store across runs: pieces saved, the _pieces directory        *)
(* changed from outside, the program started again                         *)
(***************************************************************************)
\* piece.complete(peer.acquire(piece)) and the save under _pieces, for a
\* piece that is not valid yet
Persist ==
    /\ pc # "crashed"
    /\ \E i \in Pieces :
        LET data == Content(i)
        IN  /\ ~piece_valid(i)
            /\ pieces' = [pieces EXCEPT ![i] = data]
            /\ disk' = save(disk, piece_path(piece_directory, data), data)
            /\ event' = [NoEvent EXCEPT !.op = "save", !.args = [index |-> i]]
    /\ UNCHANGED <<now, last_run, tracker_interval, tracker_peers, torrent_peers,
                   peer, pc, todo, piece, cur, peer_piece, received, last_ok,
                   ever_bad>>

\* The names a file of _pieces may have and what it may hold when something
\* other than the program writes there.
StrayNames == {piece_hashes[i] : i \in Pieces} \cup {file_name(<<>>)}
StrayData == {Content(i) : i \in Pieces} \cup {Corrupt, <<>>}

\* A file of _pieces is written from outside.
Damage ==
    /\ \E name \in StrayNames : \E data \in StrayData :
        /\ disk' = save(disk, <<name>>, data)
        /\ event' = [NoEvent EXCEPT !.op = "damage"]
    /\ UNCHANGED <<now, last_run, tracker_interval, tracker_peers, torrent_peers,
                   peer, pieces, pc, todo, piece, cur, peer_piece, received,
                   last_ok, ever_bad>>

\* The program is started again on the same metainfo and save path:
\* Torrent.__init__ and the first read of Torrent.pieces.
Restart ==
    /\ LET res == Torrent_pieces(disk)
       IN  /\ pieces' = res.pieces
           /\ pc' = (IF res.exc = "none" THEN "peers_open" ELSE "crashed")
           /\ event' = [NoEvent EXCEPT !.op = "pieces", !.exc = res.exc]
    /\ UNCHANGED <<now, last_run, tracker_interval, tracker_peers, torrent_peers,
                   peer, disk, todo, piece, cur, peer_piece, received, last_ok,
                   ever_bad>>

NextStore ==
    \/ Persist
    \/ Damage
    \/ Restart

SpecStore == Init /\ [][NextStore]_vars

(***************************************************************************)
(* One PieceRemote on its own: blocks inserted into its buffer             *)
(***************************************************************************)
\* The bytes a block is made of; 0 is the zero byte, which no block holds.
BlockBytes == {1, 2}
Blocks == UNION {[1..n -> BlockBytes] : n \in 1..2}

\* PieceRemote.insert_block(begin, block) on the buffer held in peer_piece
InsertBlock ==
    /\ \E begin \in 0..MaxBegin : \E block \in Blocks :
        LET data == insert_block(peer_piece.data, begin, block)
        IN  /\ Len(data) <= MaxBuffer
            /\ peer_piece' = [peer_piece EXCEPT !.data = data]
            /\ event' = [NoEvent EXCEPT !.op = "insert_block",
                            !.args = [begin |-> begin, block |-> block]]
    /\ UNCHANGED <<now, last_run, tracker_interval, tracker_peers, torrent_peers,
                   peer, pieces, disk, pc, todo, piece, cur, received, last_ok,
                   ever_bad>>

\* Piece.clear
ClearBuffer ==
    /\ peer_piece.data # <<>>
    /\ peer_piece' = [peer_piece EXCEPT !.data = <<>>]
    /\ event' = [NoEvent EXCEPT !.op = "clear"]
    /\ UNCHANGED <<now, last_run, tracker_interval, tracker_peers, torrent_peers,
                   peer, pieces, disk, pc, todo, piece, cur, received, last_ok,
                   ever_bad>>

NextBlocks ==
    \/ InsertBlock
    \/ ClearBuffer

SpecBlocks == Init /\ [][NextBlocks]_vars

(***************************************************************************)
(* A further claim about one Peer object (SpecWire)                        *)
(***************************************************************************)
\* C30: after a message of declared length L has been handled (a keep-alive,
\* a message of each type, cancel and port and unknown types among them),
\* 4+L bytes of the stream have been taken, so that the next bytes read are a
\* length prefix; and a cancel changes nothing in the peer.
C30_FramingAligned ==
    [][event'.op = "message" /\ event'.whole /\ event'.exc = "none" =>
        /\ event'.args.taken = 4 + event'.args.length
        /\ event'.mtype = 8 => peer'[WireId] = peer[WireId]]_vars

\* C31: a message whose length prefix is 0 is handled as a keep-alive: only
\* the four bytes of the prefix are taken from the stream (no type byte, no
\* payload), nothing is raised, and the peer's status, its remote pieces
\* (have flags and buffers) and its uploaded counter are as they were.
C31_KeepAlive ==
    [][event'.op = "message" /\ event'.mtype = NoType /\ event'.whole =>
        /\ event'.exc = "none"
        /\ event'.args.length = 0 /\ event'.args.taken = 4
        /\ event'.out = 0
        /\ peer'[WireId].status = peer[WireId].status
        /\ peer'[WireId].pieces = peer[WireId].pieces
        /\ peer'[WireId].uploaded = peer[WireId].uploaded]_vars

\* A keep-alive was handled on a choked peer that holds a block and has
\* uploaded something.
C31_Witness ==
    /\ event.op = "message" /\ event.mtype = NoType /\ event.whole
    /\ event.pre = CHOKE /\ peer[WireId].status = CHOKE
    /\ \E i \in Pieces : peer[WireId].pieces[i].data # <<>>

(***************************************************************************)
(* Claims about the driver in the swarm of two (SpecSwarm)                 *)
(***************************************************************************)
\* C19: a peer that refuses every connection does not stop the download:
\* once the driver knows, next to it, a peer that accepts, handshakes,
\* advertises every piece and serves the blocks asked for, the driver
\* eventually opens that peer and acquires a piece from it.
C19_RefusingPeerDoesNotStop ==
    (torrent_peers[Refuser] # NoPeer /\ torrent_peers[Server] # NoPeer)
        ~> (/\ torrent_peers[Server] # NoPeer
            /\ peer[torrent_peers[Server]].status = OK
            /\ \E i \in Pieces : piece_valid(i))

(***************************************************************************)
(* Claims about a PieceRemote buffer (SpecBlocks)                          *)
(***************************************************************************)
\* C21: after insert_block(begin, block) the bytes [begin, begin+len(block))
\* of the buffer are the block, every byte that was in the buffer outside
\* that range is unchanged, and a gap between the old end of the buffer and
\* begin holds zero bytes.
C21_InsertBlockPlaces ==
    [][event'.op = "insert_block" =>
        LET begin == event'.args.begin
            block == event'.args.block
            old == peer_piece.data
            new == peer_piece'.data
        IN  /\ Len(new) >= begin + Len(block)
            /\ \A k \in 1..Len(block) : new[begin + k] = block[k]
            /\ \A k \in 1..Len(old) :
                  (k <= begin \/ k > begin + Len(block)) => new[k] = old[k]
            /\ \A k \in (Len(old) + 1)..begin : new[k] = 0]_vars

(***************************************************************************)
(* Claims about the piece store across runs (SpecStore)                    *)
(***************************************************************************)
\* C22: a piece whose file the driver saved in an earlier run (the file is in
\* _pieces under the declared digest and holds the piece) is, when the piece
\* map is built again, loaded and valid, and building does not fail.
C22_ResumeRoundTrip ==
    [][event'.op = "pieces" =>
        \A i \in Pieces :
            [name |-> piece_hashes[i], data |-> Content(i)] \in disk
                => /\ event'.exc = "none"
                   /\ valid(piece_hashes[i], pieces'[i])]_vars

\* C23: when the piece map is built and the file of a piece is on disk with
\* content that does not hash to the piece's digest, building does not fail
\* and the piece is in the map with an empty buffer, not valid.
C23_MismatchCleared ==
    [][event'.op = "pieces" =>
        \A i \in Pieces :
            (\E f \in disk : /\ f.name \in {piece_hashes[i], file_name(<<>>)}
                             /\ ~valid(piece_hashes[i], f.data))
                => /\ event'.exc = "none"
                   /\ pieces'[i] = <<>>
                   /\ ~valid(piece_hashes[i], pieces'[i])]_vars

\* C24: downloaded is piece_length times the number of valid pieces,
\* remaining is total_size less downloaded, and complete says that every
\* piece is valid.
C24_Totals ==
    /\ downloaded(pieces) = piece_length * Cardinality({i \in Pieces : piece_valid(i)})
    /\ remaining(pieces) + downloaded(pieces) = total_size
    /\ complete(pieces) <=> \A i \in Pieces : piece_valid(i)

\* Some pieces are valid and some are not.
C24_Witness ==
    /\ \E i \in Pieces : piece_valid(i)
    /\ \E i \in Pieces : ~piece_valid(i)
    /\ event.op = "save"

(***************************************************************************)
(* Claims about a peer that asks for blocks (SpecServe)                    *)
(***************************************************************************)
\* C25: a request (index, begin, length) with length <= BLOCK_SIZE is
\* answered with exactly one piece message (index, begin, block), block being
\* the bytes [begin, begin+length) of the torrent's local piece at index, and
\* uploaded grows by the length of that block.
C25_RequestServed ==
    [][event'.op = "request" /\ event'.args.size <= BLOCK_SIZE =>
        LET a == event'.args
            block == PySlice(pieces[a.index], a.begin, a.begin + a.size)
        IN  /\ event'.ret = <<[index |-> a.index, begin |-> a.begin, block |-> block]>>
            /\ peer'[WireId].uploaded = peer[WireId].uploaded + Len(block)]_vars

\* C32: whatever piece messages the peers have sent, the data buffer of every
\* piece object, the local pieces and the PieceRemote objects of every peer,
\* is at most piece_length long.
C32_BufferBounded ==
    /\ \A i \in Pieces : Len(pieces[i]) <= piece_length
    /\ \A id \in PeerIds : \A i \in Pieces :
          Len(peer[id].pieces[i].data) <= piece_length

(***************************************************************************)
(* Claims about the UDP tracker (SpecUDP)                                  *)
(***************************************************************************)
\* C28: the connect step yields a connection id only from a response of at
\* least 16 bytes with action 0 and the transaction id that was sent, and
\* every other response (short, other transaction id, action 3 or any other
\* action) raises a tracker error and yields none.
C28_ConnectStep ==
    [][event'.op \in {"connection_request", "parse_connection_response"} =>
        LET buf == event'.args.buf
            good == /\ buf.len >= 16 /\ buf.action = 0
                    /\ buf.transaction_id = event'.args.transaction_id
        IN  /\ event'.ret # <<>> => good /\ event'.ret = <<buf.connection_id>>
            /\ ~good => event'.exc = "TrackerException" /\ event'.ret = <<>>]_vars

(***************************************************************************)
(* Claims about the files of a torrent (SpecFiles)                         *)
(***************************************************************************)
\* C26: create_directory rejects every torrent whose name puts the save
\* directory outside the save path, and makes no directory before it does.
C26_EscapeRejected ==
    [][event'.op = "create_directory"
            /\ Outside(event'.args.save_path, event'.args.name)
        => event'.exc # "none" /\ event'.ret = <<>>]_vars

\* C27: with every piece valid, split_out writes, for the k-th file of size
\* f_k, the bytes [f_1+...+f_(k-1), f_1+...+f_k) of the piece buffers put one
\* after the other in the order of the piece index.
C27_SplitOutWrites ==
    [][event'.op = "split_out" =>
        LET fs == event'.args
            all == Concat(NumPieces)
            start(k) == sum([j \in 1..(k - 1) |-> fs[j].size])
        IN  /\ event'.exc = "none"
            /\ Len(event'.ret) = Len(fs)
            /\ \A k \in 1..Len(fs) :
                  event'.ret[k] =
                    [name |-> fs[k].name,
                     data |-> SubSeq(all, start(k) + 1, start(k) + fs[k].size)]]_vars

(***************************************************************************)
(* The piece map of a metainfo whose piece hashes may repeat               *)
(***************************************************************************)
\* The lists Torrent.piece_hashes may be.
HashLists ==
    UNION {[1..n -> {digest(Content(i)) : i \in 0..(MaxHashes - 1)}] :
              n \in 1..MaxHashes}

\* The keys of the OrderedDict that Torrent.pieces fills with
\* self._pieces[piece_hash] = piece, in the order of the dictionary: an
\* assignment to a key that is there leaves the key where it is.
RECURSIVE keys(_)
keys(hs) ==
    IF hs = <<>> THEN <<>>
    ELSE LET front == keys(SubSeq(hs, 1, Len(hs) - 1))
             sha == hs[Len(hs)]
         IN  IF \E k \in 1..Len(front) : front[k] = sha THEN front
             ELSE Append(front, sha)

\* self.pieces.values().index(piece): list.index compares with Piece.__eq__,
\* which compares the sha.
index(shas, sha) ==
    (CHOOSE k \in 1..Len(shas) :
        shas[k] = sha /\ \A j \in 1..(k - 1) : shas[j] # sha) - 1

\* self.pieces.values()[index] of a message received: the sha of the piece
\* object the handler works on.
at(shas, i) ==
    IF i < Len(shas) THEN [exc |-> "none", ret |-> <<shas[i + 1]>>]
    ELSE [exc |-> "IndexError", ret |-> <<>>]

\* The first read of Torrent.pieces for a metainfo with the hashes hs
MapBuilt ==
    /\ \E hs \in HashLists :
        event' = [NoEvent EXCEPT !.op = "pieces", !.args = [piece_hashes |-> hs],
                                 !.ret = keys(hs)]
    /\ UNCHANGED <<now, last_run, tracker_interval, tracker_peers, torrent_peers,
                   peer, pieces, disk, pc, todo, piece, cur, peer_piece, received,
                   last_ok, ever_bad>>

\* Peer.acquire and Torrent.advertise_piece work out the index they send
\* for the piece that stands at a position of piece_hashes.
IndexSent ==
    /\ \E hs \in HashLists : \E k \in 1..Len(hs) :
        event' = [NoEvent EXCEPT !.op = "index_sent",
                                 !.args = [piece_hashes |-> hs, position |-> k - 1],
                                 !.ret = <<index(keys(hs), hs[k])>>]
    /\ UNCHANGED <<now, last_run, tracker_interval, tracker_peers, torrent_peers,
                   peer, pieces, disk, pc, todo, piece, cur, peer_piece, received,
                   last_ok, ever_bad>>

\* recv_have, recv_request and recv_piece look up the piece of the index a
\* peer sent, the position of the piece in piece_hashes.
IndexReceived ==
    /\ \E hs \in HashLists : \E k \in 1..Len(hs) :
        LET res == at(keys(hs), k - 1)
        IN  event' = [NoEvent EXCEPT !.op = "index_received",
                                     !.args = [piece_hashes |-> hs, position |-> k - 1],
                                     !.exc = res.exc, !.ret = res.ret]
    /\ UNCHANGED <<now, last_run, tracker_interval, tracker_peers, torrent_peers,
                   peer, pieces, disk, pc, todo, piece, cur, peer_piece, received,
                   last_ok, ever_bad>>

NextIndex ==
    \/ MapBuilt
    \/ IndexSent
    \/ IndexReceived

SpecIndex == Init /\ [][NextIndex]_vars

\* C34: the piece map has one entry for every entry of piece_hashes, the
\* index sent for a piece in request and have messages is its position in
\* piece_hashes, and the index of a have, request or piece message received
\* is taken to mean the piece at that position, also when two pieces of the
\* torrent have the same SHA-1.
C34_IndexIsPosition ==
    [][/\ (event'.op = "pieces"
                => Len(event'.ret) = Len(event'.args.piece_hashes))
       /\ (event'.op = "index_sent"
                => event'.ret = <<event'.args.position>>)
       /\ (event'.op = "index_received"
                => /\ event'.exc = "none"
                   /\ event'.ret =
                        <<event'.args.piece_hashes[event'.args.position + 1]>>)]_vars

(***************************************************************************)
(* The sizes a torrent reports, for every total size and piece length      *)
(***************************************************************************)
\* The pieces of a metainfo whose files hold total bytes in pieces of pl
\* bytes: the last piece is the shorter one.
PieceCount(total, pl) == (total + pl - 1) \div pl

\* Torrent.remaining, as the announce payload reads it for "left"
ReadRemaining ==
    /\ \E total \in 1..MaxTotal : \E pl \in 1..MaxPieceLength :
        \E flags \in [1..PieceCount(total, pl) -> BOOLEAN] :
            event' = [NoEvent EXCEPT !.op = "remaining",
                        !.args = [total_size |-> total, piece_length |-> pl,
                                  valid |-> flags],
                        !.ret = <<remaining_of(total, pl, flags)>>]
    /\ UNCHANGED <<now, last_run, tracker_interval, tracker_peers, torrent_peers,
                   peer, pieces, disk, pc, todo, piece, cur, peer_piece, received,
                   last_ok, ever_bad>>

NextTotals ==
    \/ ReadRemaining

SpecTotals == Init /\ [][NextTotals]_vars

\* C37: Torrent.remaining is never negative, and it is 0 when every piece is
\* valid, whatever the total size and the piece length are, a total size
\* that is no multiple of the piece length included.
C37_RemainingNotNegative ==
    [][event'.op = "remaining" =>
        /\ event'.ret[1] >= 0
        /\ ((\A k \in DOMAIN event'.args.valid : event'.args.valid[k])
                => event'.ret[1] = 0)]_vars

====
